---- MODULE Spec2Model ----
(***************************************************************************)
(* Model of src/src/App.jsx: the map viewer's data loader (loadAllData),   *)
(* the flattening of the loaded data into markers (getAllMarkers), the     *)
(* render of the App component (map branch / loading branch, marker loop,  *)
(* MapController effect, photo overlay) and the navigation handlers.       *)
(*                                                                         *)
(* Strings are sequences of one-character strings.  Coordinates are        *)
(* integers in micro-degrees (degrees * 10^6).  A missing field of a row   *)
(* (undefined) is the one-element sequence Undefined; a state that is null *)
(* is the empty sequence Null and a state that holds a value v is <<v>>.   *)
(*                                                                         *)
(* A step of the model is one turn of the event loop with the render and   *)
(* the effects React runs after it (Commit).  The Leaflet map is the view  *)
(* it shows and the target of the move setView started, if any; the user's *)
(* own panning and zooming of the map is not modelled (MapLogger's         *)
(* handlers are empty).  parseFloat reads a sign, digits and a fraction;   *)
(* exponents and "Infinity" do not occur in the rows of the model.         *)
(***************************************************************************)
EXTENDS Integers, Sequences, FiniteSets, TLC

(***************************************************************************)
(* Bounds of the model.                                                    *)
(***************************************************************************)
\* how many entries of dataSources (in registry order) the model loads
NumSources == 2
\* how many of the navigation controls (in the order of their handlers) the
\* model clicks
NumNav == 2

(***************************************************************************)
(* JavaScript values and String helpers                                    *)
(***************************************************************************)
Undefined == <<"undefined">>
SP == " "
DQ == "\""

DigitChars == <<"0", "1", "2", "3", "4", "5", "6", "7", "8", "9">>
IsDigit(c) == \E i \in 1..10 : DigitChars[i] = c
DigitVal(c) == (CHOOSE i \in 1..10 : DigitChars[i] = c) - 1

\* JavaScript truthiness of a field of a parsed row: undefined and the empty
\* string are falsy, every other string is truthy (App.jsx:305)
Truthy(v) == v # Undefined /\ v # <<>>

RECURSIVE TrimStart(_)
TrimStart(s) == IF s # <<>> /\ Head(s) = SP THEN TrimStart(Tail(s)) ELSE s

RECURSIVE TrimEnd(_)
TrimEnd(s) ==
  IF s # <<>> /\ s[Len(s)] = SP THEN TrimEnd(SubSeq(s, 1, Len(s) - 1)) ELSE s

\* String.prototype.trim
Trim(s) == TrimEnd(TrimStart(s))

\* item.Name.replace(/"/g, '')
StripQuotes(s) == SelectSeq(s, LAMBDA c : c # DQ)

RECURSIVE DigitPrefix(_)
DigitPrefix(s) ==
  IF s # <<>> /\ IsDigit(Head(s)) THEN <<Head(s)>> \o DigitPrefix(Tail(s)) ELSE <<>>

RECURSIVE IntDigits(_)
IntDigits(ds) ==
  IF ds = <<>> THEN 0 ELSE 10 * IntDigits(SubSeq(ds, 1, Len(ds) - 1)) + DigitVal(ds[Len(ds)])

RECURSIVE Pow10(_)
Pow10(n) == IF n = 0 THEN 1 ELSE 10 * Pow10(n - 1)

\* the fractional digits in micro-degrees (digits after the sixth are dropped)
RECURSIVE FracDigits(_, _)
FracDigits(ds, place) ==
  IF ds = <<>> \/ place > 6 THEN 0
  ELSE DigitVal(Head(ds)) * Pow10(6 - place) + FracDigits(Tail(ds), place + 1)

NaN == [isNaN |-> TRUE, val |-> 0]
Num(v) == [isNaN |-> FALSE, val |-> v]

\* parseFloat(string): leading white space is skipped, then the longest
\* prefix  [-] digits [. digits]  is converted; NaN when there is no digit
parseFloat(s) ==
  LET t == TrimStart(s)
      neg == t # <<>> /\ Head(t) = "-"
      u == IF neg THEN Tail(t) ELSE t
      ip == DigitPrefix(u)
      afterInt == SubSeq(u, Len(ip) + 1, Len(u))
      fp == IF afterInt # <<>> /\ Head(afterInt) = "."
              THEN DigitPrefix(Tail(afterInt)) ELSE <<>>
      mag == IntDigits(ip) * 1000000 + FracDigits(fp, 1)
  IN IF ip = <<>> /\ fp = <<>> THEN NaN
     ELSE Num(IF neg THEN 0 - mag ELSE mag)


(***************************************************************************)
(* Static configuration                                                    *)
(***************************************************************************)
Null == <<>>

categoryColors ==
  [total |-> "#0288d1", duvida |-> "#7ca942", parcial |-> "#fbc02d", ruinas |-> "#9c27b0"]

Municipios ==
  <<"aguas_vermelhas", "pajeu", "pedra_azul", "divisopolis", "divisa_alegre",
    "medina", "comercinho">>
Categories == <<"total", "duvida", "parcial", "ruinas">>

\* the Source Registry: 7 municipalities x 4 categories, in this order; a
\* source's name is the pair <<municipality, category>> (the code joins the
\* two with "_"), its imageFolder is "./data/" followed by the name
dataSources ==
  [i \in 1..28 |->
     LET m == Municipios[((i - 1) \div 4) + 1]
         c == Categories[((i - 1) % 4) + 1]
     IN [name |-> <<m, c>>, imageFolder |-> <<"./data", m, c>>, category |-> c,
         color |-> categoryColors[c]]]

Sources == 1..NumSources

defaultMapCenter == [lat |-> -15970749, lng |-> -41376169]
defaultMapZoom == 11

\* the navigation handlers goToAguasVermelhas .. goToComercinho, in source
\* order: the municipio each selects and the view each requests
navigation ==
  << [municipio |-> "aguas_vermelhas", lat |-> -15747277, lng |-> -41462284, zoom |-> 16],
     [municipio |-> "pajeu",           lat |-> -15967002, lng |-> -41497164, zoom |-> 16],
     [municipio |-> "pedra_azul",      lat |-> -16000729, lng |-> -41278510, zoom |-> 15],
     [municipio |-> "divisopolis",     lat |-> -15721833, lng |-> -41002779, zoom |-> 15],
     [municipio |-> "divisa_alegre",   lat |-> -15719519, lng |-> -41344450, zoom |-> 15],
     [municipio |-> "medina",          lat |-> -16225450, lng |-> -41477927, zoom |-> 16],
     [municipio |-> "comercinho",      lat |-> -16297221, lng |-> -41795393, zoom |-> 16] >>

NavControls == 1..NumNav

(***************************************************************************)
(* Inputs: the rows Papa.parse hands to its complete callback              *)
(***************************************************************************)
Row(x, y, n) == [X |-> x, Y |-> y, Name |-> n]

\* X=-41.46, Y=-15.75, Name="A" (the quotes are part of the field)
RowQuotedA == Row(<<"-","4","1",".","4","6">>, <<"-","1","5",".","7","5">>, <<DQ,"A",DQ>>)
\* X=, Y=-15.80, Name=B
RowEmptyX == Row(<<>>, <<"-","1","5",".","8","0">>, <<"B">>)
\* X is one blank
RowBlankX == Row(<<SP>>, <<"-","1","5",".","8","0">>, <<"B">>)
\* Y is not a number
RowAlphaY == Row(<<"-","4","1",".","5">>, <<"n","a">>, <<"B">>)
\* Name is two quotation marks and nothing else
RowQuotesOnly == Row(<<"-","4","1",".","5","0">>, <<"-","1","5",".","7","0">>, <<DQ,DQ>>)
\* Name is one blank
RowBlankName == Row(<<"-","4","1",".","5","0">>, <<"-","1","5",".","7","0">>, <<SP>>)
\* a short line: the Name column is missing
RowNoName == Row(<<"-","4","1",".","5","0">>, <<"-","1","5",".","7","0">>, Undefined)
\* X=-41.40, Y=-16.00, Name=C with blanks around it
RowC == Row(<<"-","4","1",".","4","0">>, <<SP,"-","1","6",".","0","0">>, <<SP,"C",SP>>)

\* the tables a source's file may parse to
CsvTables ==
  { <<>>,
    <<RowQuotedA, RowEmptyX>>,
    <<RowBlankX, RowBlankName>>,
    <<RowQuotesOnly, RowC>>,
    <<RowAlphaY, RowNoName>>,
    <<RowC, RowQuotedA>> }

\* of these, the tables of the sessions with user interaction: one with a
\* row that is drawn, one whose only row is kept by the filter and not drawn
ShownTables == { <<RowQuotedA, RowEmptyX>>, <<RowBlankX>> }

\* the images import.meta.glob finds: <<source name, photo name>> for
\* ./data/<source name>/<photo name>.png; the folders of the category
\* "duvida" hold no image
imageModules ==
  { <<dataSources[i].name, n>> :
      i \in {j \in 1..28 : dataSources[j].category # "duvida"}, n \in {<<"A">>, <<"C">>} }


(***************************************************************************)
(* State                                                                   *)
(***************************************************************************)
VARIABLES
  attempt,           \* per source: where its async load function is
                     \*   "import" | "parse" | "caught" | "parseError" | "threw" | "complete"
  parsed,            \* per source: results.data handed to Papa's complete callback
  promise,           \* per source: the state of loadPromises[i]
  settled,           \* the sources in the order their promises settled
  loader,            \* loadAllData: "awaiting" (Promise.allSettled) | "published"
  allData,           \* useState([]): sequence of {source, data}
  selectedPhoto,     \* useState(null)
  mapView,           \* useState(null)
  selectedMunicipio, \* useState(null)
  map,               \* the Leaflet map of MapContainer; Null while not mounted
  ctrlDeps,          \* MapController: the deps of its effect's last run; Null while not mounted
  setViewCalled,     \* whether the last step called map.setView
  lastClicked,       \* the navigation control clicked last, 0 before the first click
  overlayClick       \* the last step as a click on the photo overlay: "close" (the
                     \*   close button or outside the dialog) | "dialog" (inside the
                     \*   dialog) | "none" (any other step)

vars ==
  <<attempt, parsed, promise, settled, loader, allData, selectedPhoto, mapView,
    selectedMunicipio, map, ctrlDeps, setViewCalled, lastClicked, overlayClick>>

loaderVars == <<attempt, parsed, promise, settled, loader>>

(***************************************************************************)
(* loadAllData: the per-source attempt                                     *)
(***************************************************************************)
\* the filter without its test of the photo identifier
validDataXYOnly(data) ==
  SelectSeq(data, LAMBDA item : Truthy(item.X) /\ Truthy(item.Y))

\* results.data.filter(item => item.X && item.Y && item.Name)
validData(data) ==
  SelectSeq(data, LAMBDA item : Truthy(item.X) /\ Truthy(item.Y) /\ Truthy(item.Name))

\* validData.map(item => ({...item, source: source.name, folder: source.imageFolder}))
transformedData(data, source) ==
  LET valid == validData(data)
  IN [k \in 1..Len(valid) |->
        [X |-> valid[k].X, Y |-> valid[k].Y, Name |-> valid[k].Name,
         source |-> source.name, folder |-> source.imageFolder]]

\* the value the complete callback resolves the promise with
completeValue(data, source) ==
  [source |-> source.name, data |-> transformedData(data, source)]

\* the value of the error callback, of the catch block and of the rejected
\* branch after Promise.allSettled
emptyValue(source) == [source |-> source.name, data |-> <<>>]

Pending == [status |-> "pending", value |-> Null]
Fulfilled(v) == [status |-> "fulfilled", value |-> <<v>>]
Rejected == [status |-> "rejected", value |-> Null]

\* results.map((result, index) => ...) after Promise.allSettled
loadedEntry(result, index) ==
  IF result.status = "fulfilled" THEN result.value[1] ELSE emptyValue(dataSources[index])

loadedData(results) == [index \in 1..Len(results) |-> loadedEntry(results[index], index)]

\* Promise.all in the place of Promise.allSettled: one rejection fails the lot
allOrNothingResults ==
  IF \E i \in 1..NumSources : promise[i].status = "rejected"
    THEN [i \in 1..NumSources |-> Rejected]
    ELSE [i \in 1..NumSources |-> promise[i]]

\* results collected in the order the promises settled
resultsInSettleOrder == [k \in 1..Len(settled) |-> promise[settled[k]]]

\* Promise.allSettled(loadPromises): one result per promise, in the order of
\* loadPromises
allSettledResults == [i \in 1..NumSources |-> promise[i]]

\* Promise.race in the place of Promise.allSettled
AnySettled == \E s \in DOMAIN promise : promise[s].status # "pending"

AllSettled == \A s \in Sources : promise[s].status # "pending"

(***************************************************************************)
(* Render                                                                  *)
(***************************************************************************)
\* allData.flatMap(sourceData => sourceData.data.map(item => ({...item, source: sourceData.source})))
RECURSIVE flatMap(_)
flatMap(data) ==
  IF data = <<>> THEN <<>>
  ELSE [k \in 1..Len(Head(data).data) |->
          [Head(data).data[k] EXCEPT !.source = Head(data).source]]
       \o flatMap(Tail(data))

getAllMarkers(data) == flatMap(data)

\* item.Name?.replace(/"/g, '')?.trim() || item.Name?.trim() || ''
photoName(item) ==
  IF item.Name = Undefined THEN <<>>
  ELSE LET stripped == Trim(StripQuotes(item.Name))
       IN IF stripped # <<>> THEN stripped ELSE Trim(item.Name)

\* isNaN(lat) || isNaN(lng) || !photoName
skipMarker(item) ==
  parseFloat(item.Y).isNaN \/ parseFloat(item.X).isNaN \/ photoName(item) = <<>>

\* getImagePath(folderName, photoName): the module found for the pair, or
\* the constructed path
getImagePath(folderName, name) ==
  IF <<folderName, name>> \in imageModules
    THEN [module |-> TRUE, folder |-> folderName, photo |-> name]
    ELSE [module |-> FALSE, folder |-> folderName, photo |-> name]

\* what a click on the marker of item stores in selectedPhoto
photoOf(item) ==
  LET name == photoName(item)
  IN [foto |-> name, path |-> getImagePath(item.source, name),
      lat |-> parseFloat(item.Y).val, lng |-> parseFloat(item.X).val,
      source |-> item.source]

\* the <Marker> elements of the marker loop, in order (skipped items left out)
renderedMarkers(data) ==
  LET ms == getAllMarkers(data)
      kept == SelectSeq(ms, LAMBDA item : ~skipMarker(item))
  IN [k \in 1..Len(kept) |-> photoOf(kept[k])]

\* {selectedPhoto && <div className="photo-dialog-overlay" ...>}
photoDialogOverlay(photo) == photo # Null

\* getAllMarkers().length > 0 ? <map-container> : <loading>
mapBranch(data) == Len(getAllMarkers(data)) > 0

SetMin(S) == CHOOSE x \in S : \A y \in S : x <= y
SetMax(S) == CHOOSE x \in S : \A y \in S : x >= y

\* the midpoint of the bounding box of the drawn markers, the fallback when
\* there is none
boundsCenter(data) ==
  LET ds == renderedMarkers(data)
      lats == {ds[k].lat : k \in 1..Len(ds)}
      lngs == {ds[k].lng : k \in 1..Len(ds)}
  IN IF ds = <<>> THEN defaultMapCenter
     ELSE [lat |-> (SetMin(lats) + SetMax(lats)) \div 2,
           lng |-> (SetMin(lngs) + SetMax(lngs)) \div 2]

\* a MapContainer whose center is computed from the markers
mountedMapAtBoundsCenter(data) ==
  IF ~mapBranch(data) THEN Null
  ELSE IF map = Null
    THEN <<[center |-> boundsCenter(data), zoom |-> defaultMapZoom, target |-> Null]>>
  ELSE map

\* MapContainer: created with center/zoom on mount, kept while it stays mounted
mountedMap(data) ==
  IF ~mapBranch(data) THEN Null
  ELSE IF map = Null
    THEN <<[center |-> defaultMapCenter, zoom |-> defaultMapZoom, target |-> Null]>>
  ELSE map

\* {mapView && <MapController .../>}, inside MapContainer
controllerRendered(data, view) == mapBranch(data) /\ view # Null

\* the dependency array [center, zoom, map] of MapController's effect (map is
\* the one map of the mounted MapContainer); center is compared by reference
effectDeps(view) == <<view[1].center.ref, view[1].zoom>>

\* an effect that skips its run on mount
effectRunsOnChangeOnly(data, view) ==
  /\ controllerRendered(data, view)
  /\ ctrlDeps # Null
  /\ map # Null
  /\ ctrlDeps[1] # effectDeps(view)

\* an effect without a dependency array: it runs after every render
effectRunsEveryRender(data, view) == controllerRendered(data, view)

\* useEffect(..., [center, zoom, map]): runs on mount and when a dependency changed
effectRuns(data, view) ==
  /\ controllerRendered(data, view)
  /\ (ctrlDeps = Null \/ map = Null \/ ctrlDeps[1] # effectDeps(view))

\* map.setView(center, zoom, {animate: true, duration: 1.0})
setView(m, view) ==
  <<[m[1] EXCEPT !.target =
       <<[center |-> [lat |-> view[1].center.lat, lng |-> view[1].center.lng],
          zoom |-> view[1].zoom]>>]>>

\* one render of App with the new state, and the effects it runs
Commit(data, view) ==
  LET runs == effectRuns(data, view)
      mounted == mountedMap(data)
  IN /\ map' = IF runs THEN setView(mounted, view) ELSE mounted
     /\ ctrlDeps' = IF controllerRendered(data, view) THEN <<effectDeps(view)>> ELSE Null
     /\ setViewCalled' = runs


(***************************************************************************)
(* Init: App mounted with its initial state, the effect has called         *)
(* loadAllData, which has issued one import per source                     *)
(***************************************************************************)
Init ==
  /\ attempt = [s \in Sources |-> "import"]
  /\ parsed = [s \in Sources |-> <<>>]
  /\ promise = [s \in Sources |-> Pending]
  /\ settled = <<>>
  /\ loader = "awaiting"
  /\ allData = <<>>
  /\ selectedPhoto = Null
  /\ mapView = Null
  /\ selectedMunicipio = Null
  /\ map = Null
  /\ ctrlDeps = Null
  /\ setViewCalled = FALSE
  /\ lastClicked = 0
  /\ overlayClick = "none"

uiVars == <<allData, selectedPhoto, mapView, selectedMunicipio, map, ctrlDeps, lastClicked>>

\* the promise of source s settles with result r
Settle(s, r) ==
  /\ promise' = [promise EXCEPT ![s] = r]
  /\ settled' = Append(settled, s)

(***************************************************************************)
(* The per-source attempts                                                 *)
(***************************************************************************)
\* await source.csvPath() resolves with the module
ImportResolve(s) ==
  /\ attempt[s] = "import"
  /\ attempt' = [attempt EXCEPT ![s] = "parse"]
  /\ setViewCalled' = FALSE
  /\ overlayClick' = "none"
  /\ UNCHANGED <<parsed, promise, settled, loader, uiVars>>

\* await source.csvPath() rejects: the catch block returns the empty value
ImportReject(s) ==
  /\ attempt[s] = "import"
  /\ attempt' = [attempt EXCEPT ![s] = "caught"]
  /\ Settle(s, Fulfilled(emptyValue(dataSources[s])))
  /\ setViewCalled' = FALSE
  /\ overlayClick' = "none"
  /\ UNCHANGED <<parsed, loader, uiVars>>

\* Papa.parse calls complete(results) with results.data = data
ParseComplete(s, data) ==
  /\ attempt[s] = "parse"
  /\ attempt' = [attempt EXCEPT ![s] = "complete"]
  /\ parsed' = [parsed EXCEPT ![s] = data]
  /\ Settle(s, Fulfilled(completeValue(data, dataSources[s])))
  /\ setViewCalled' = FALSE
  /\ overlayClick' = "none"
  /\ UNCHANGED <<loader, uiVars>>

\* Papa.parse calls error(error)
ParseError(s) ==
  /\ attempt[s] = "parse"
  /\ attempt' = [attempt EXCEPT ![s] = "parseError"]
  /\ Settle(s, Fulfilled(emptyValue(dataSources[s])))
  /\ setViewCalled' = FALSE
  /\ overlayClick' = "none"
  /\ UNCHANGED <<parsed, loader, uiVars>>

\* Papa.parse (or a callback it calls synchronously) throws inside the
\* Promise executor: the returned promise rejects outside the try block's reach
ParseThrow(s) ==
  /\ attempt[s] = "parse"
  /\ attempt' = [attempt EXCEPT ![s] = "threw"]
  /\ Settle(s, Rejected)
  /\ setViewCalled' = FALSE
  /\ overlayClick' = "none"
  /\ UNCHANGED <<parsed, loader, uiVars>>

(***************************************************************************)
(* loadAllData after await Promise.allSettled: setAllData(loadedData)      *)
(***************************************************************************)
\* the effect without its empty dependency array: the render that follows
\* setAllData runs loadAllData again
PublishAndReload ==
  /\ loader = "awaiting"
  /\ AllSettled
  /\ allData' = loadedData(allSettledResults)
  /\ Commit(allData', mapView)
  /\ overlayClick' = "none"
  /\ attempt' = [s \in Sources |-> "import"]
  /\ promise' = [s \in Sources |-> Pending]
  /\ settled' = <<>>
  /\ UNCHANGED <<loader, parsed, selectedPhoto, mapView, selectedMunicipio, lastClicked>>

Publish ==
  /\ loader = "awaiting"
  /\ AllSettled
  /\ loader' = "published"
  /\ allData' = loadedData(allSettledResults)
  /\ Commit(allData', mapView)
  /\ overlayClick' = "none"
  /\ UNCHANGED <<attempt, parsed, promise, settled, selectedPhoto, mapView,
                 selectedMunicipio, lastClicked>>

(***************************************************************************)
(* User interaction                                                        *)
(***************************************************************************)
\* a center array literal is a new object at each click: its reference is
\* one that neither mapView nor the effect's last deps hold
freshRef == IF mapView # Null /\ mapView[1].center.ref = 1 THEN 2 ELSE 1

\* a handler copied from the first one with its view left as it was
goToFirstView(k) ==
  /\ selectedMunicipio' = <<navigation[k].municipio>>
  /\ mapView' = <<[center |-> [ref |-> freshRef, lat |-> navigation[1].lat,
                               lng |-> navigation[1].lng],
                   zoom |-> navigation[1].zoom]>>
  /\ lastClicked' = k
  /\ Commit(allData, mapView')
  /\ overlayClick' = "none"
  /\ UNCHANGED <<loaderVars, allData, selectedPhoto>>

\* goToAguasVermelhas .. goToComercinho: the handler of control k
goTo(k) ==
  /\ selectedMunicipio' = <<navigation[k].municipio>>
  /\ mapView' = <<[center |-> [ref |-> freshRef, lat |-> navigation[k].lat,
                               lng |-> navigation[k].lng],
                   zoom |-> navigation[k].zoom]>>
  /\ lastClicked' = k
  /\ Commit(allData, mapView')
  /\ overlayClick' = "none"
  /\ UNCHANGED <<loaderVars, allData, selectedPhoto>>

\* click on the i-th rendered marker, or on the button of its popup
MarkerClick(i) ==
  LET drawn == renderedMarkers(allData)
  IN /\ mapBranch(allData)
     /\ i \in 1..Len(drawn)
     /\ selectedPhoto' = <<drawn[i]>>
     /\ Commit(allData, mapView)
     /\ overlayClick' = "none"
     /\ UNCHANGED <<loaderVars, allData, mapView, selectedMunicipio, lastClicked>>

\* click on the overlay outside the dialog, or on the close button
ClosePhoto ==
  /\ selectedPhoto # Null
  /\ selectedPhoto' = Null
  /\ Commit(allData, mapView)
  /\ overlayClick' = "close"
  /\ UNCHANGED <<loaderVars, allData, mapView, selectedMunicipio, lastClicked>>

\* a dialog without stopPropagation: the click reaches the overlay's handler
DialogClickBubbles ==
  /\ selectedPhoto # Null
  /\ selectedPhoto' = Null
  /\ Commit(allData, mapView)
  /\ overlayClick' = "dialog"
  /\ UNCHANGED <<loaderVars, allData, mapView, selectedMunicipio, lastClicked>>

\* click inside the dialog: stopPropagation, no state is set
DialogClick ==
  /\ selectedPhoto # Null
  /\ setViewCalled' = FALSE
  /\ overlayClick' = "dialog"
  /\ UNCHANGED <<loaderVars, uiVars>>

\* Leaflet finishes the animation setView started
AnimationEnd ==
  /\ map # Null
  /\ map[1].target # Null
  /\ map' = <<[center |-> map[1].target[1].center, zoom |-> map[1].target[1].zoom,
               target |-> Null]>>
  /\ setViewCalled' = FALSE
  /\ overlayClick' = "none"
  /\ UNCHANGED <<loaderVars, allData, selectedPhoto, mapView, selectedMunicipio,
                 ctrlDeps, lastClicked>>

\* the steps of the load
LoadStep(tables) ==
  \/ \E s \in Sources : ImportResolve(s)
  \/ \E s \in Sources : ImportReject(s)
  \/ \E s \in Sources, data \in tables : ParseComplete(s, data)
  \/ \E s \in Sources : ParseError(s)
  \/ \E s \in Sources : ParseThrow(s)
  \/ Publish

\* the steps of the user and of the map
UserStep ==
  \/ \E k \in NavControls : goTo(k)
  \/ \E i \in 1..Len(renderedMarkers(allData)) : MarkerClick(i)
  \/ ClosePhoto
  \/ DialogClick
  \/ AnimationEnd

\* a session: the load, and the user clicking at any time
Next == LoadStep(ShownTables) \/ UserStep

Spec == Init /\ [][Next]_vars

\* the load alone (the user does not interact), over every table
LoadNext == LoadStep(CsvTables)

LoadSpec == Init /\ [][LoadNext]_vars

\* the event loop runs the continuation of loadAllData once every promise
\* has settled; an import or a parse may never complete
FairLoadSpec == LoadSpec /\ WF_vars(Publish)

(***************************************************************************)
(* Properties                                                              *)
(***************************************************************************)
Published == loader = "published"
Failed(s) == attempt[s] \in {"caught", "parseError", "threw"}
Succeeded(s) == attempt[s] = "complete"
Resolved(s) == Failed(s) \/ Succeeded(s)

\* the rows of source s among the markers, in marker order
markersOf(s) ==
  SelectSeq(getAllMarkers(allData), LAMBDA m : m.source = dataSources[s].name)

\* C1: once published, a source whose load failed (import rejected, parse
\* error, parse threw) has an entry with no rows, and a source whose load
\* succeeded has the entry of its own file alone, whatever happened to the
\* other sources
C1_FailedSourceIsEmptyOthersKept ==
  Published =>
    /\ DOMAIN allData = Sources
    /\ \A s \in Sources :
         /\ Failed(s) => allData[s] = [source |-> dataSources[s].name, data |-> <<>>]
         /\ Succeeded(s) => /\ allData[s].source = dataSources[s].name
                            /\ allData[s].data = transformedData(parsed[s], dataSources[s])

C1_Witness ==
  /\ Published
  /\ \E s, t \in Sources :
       /\ attempt[s] = "threw"
       /\ Succeeded(t)
       /\ Len(allData[t].data) = 2

\* C2: while the attempt of some source is pending, the loaded data is still
\* the initial empty snapshot
C2_NothingPublishedWhilePending ==
  (\E s \in Sources : ~Resolved(s)) => (allData = <<>> /\ ~Published)

C2_Witness ==
  /\ allData = <<>>
  /\ \E s, t \in Sources :
       /\ ~Resolved(s)
       /\ Succeeded(t)
       /\ promise[t].value[1].data # <<>>

\* C3 (as claimed): when every source has failed and the data is published,
\* there is no marker, the map is mounted at the fallback center and the
\* loading placeholder is not shown
C3_AllFailedShowsEmptyMap ==
  (Published /\ \A s \in Sources : Failed(s)) =>
    /\ getAllMarkers(allData) = <<>>
    /\ mapBranch(allData)
    /\ map # Null
    /\ map[1].center = defaultMapCenter


\* the fields X, Y, Name of a marker or of a drawn marker's item
RowOf(m) == [X |-> m.X, Y |-> m.Y, Name |-> m.Name]
RowsOf(ms) == [k \in 1..Len(ms) |-> RowOf(ms[k])]

\* a field is non-empty after quote stripping and white-space trimming
NonEmptyNormalized(v) == v # Undefined /\ Trim(StripQuotes(v)) # <<>>
\* a field is present and non-empty as it stands in the parsed row
NonEmptyRaw(v) == v # Undefined /\ Len(v) > 0
\* a field is non-empty after white-space trimming alone
NonEmptyTrimmed(v) == v # Undefined /\ Trim(v) # <<>>

RowNormalizedValid(r) ==
  NonEmptyNormalized(r.X) /\ NonEmptyNormalized(r.Y) /\ NonEmptyNormalized(r.Name)
RowRawValid(r) == NonEmptyRaw(r.X) /\ NonEmptyRaw(r.Y) /\ NonEmptyRaw(r.Name)
RowDrawable(r) ==
  /\ RowRawValid(r)
  /\ ~parseFloat(r.X).isNaN
  /\ ~parseFloat(r.Y).isNaN
  /\ NonEmptyTrimmed(r.Name)

\* the drawn markers of source s, in order
drawnOf(s) ==
  SelectSeq(renderedMarkers(allData), LAMBDA d : d.source = dataSources[s].name)

\* C4 (as claimed): the rows of a successfully loaded source that are in the
\* marker sequence are exactly its rows whose X, Y and Name are non-empty
\* after quote stripping and trimming
C4_IncludedIffNonEmptyNormalized ==
  Published =>
    \A s \in Sources :
      Succeeded(s) => RowsOf(markersOf(s)) = SelectSeq(parsed[s], RowNormalizedValid)

\* C4 (as claimed, read on the markers that are drawn): the drawn markers of
\* a successfully loaded source are as many as its rows whose X, Y and Name
\* are non-empty after quote stripping and trimming
C4_DrawnIffNonEmptyNormalized ==
  Published =>
    \A s \in Sources :
      Succeeded(s) => Len(drawnOf(s)) = Len(SelectSeq(parsed[s], RowNormalizedValid))

\* C4 (amended): the rows of a successfully loaded source that are in the
\* marker sequence are exactly its rows whose X, Y and Name are present and
\* non-empty as parsed (nothing is trimmed or stripped); of these, the ones
\* drawn as markers are exactly those whose X and Y parse to numbers and
\* whose Name is non-empty after white-space trimming
C4_IncludedIffRawNonEmpty ==
  Published =>
    \A s \in Sources :
      Succeeded(s) =>
        /\ RowsOf(markersOf(s)) = SelectSeq(parsed[s], RowRawValid)
        /\ LET want == SelectSeq(parsed[s], RowDrawable)
           IN /\ Len(drawnOf(s)) = Len(want)
              /\ \A k \in 1..Len(want) :
                   /\ drawnOf(s)[k].lat = parseFloat(want[k].Y).val
                   /\ drawnOf(s)[k].lng = parseFloat(want[k].X).val
                   /\ drawnOf(s)[k].foto \in {Trim(StripQuotes(want[k].Name)), Trim(want[k].Name)}

\* a published source with a row kept by the filter and not drawn (blank X),
\* next to a source with a row of quotation marks only, which is drawn
C4_Witness ==
  /\ Published
  /\ \E s, t \in Sources :
       /\ parsed[s] = <<RowBlankX, RowBlankName>>
       /\ Len(markersOf(s)) = 2
       /\ Len(drawnOf(s)) = 0
       /\ parsed[t] = <<RowQuotesOnly, RowC>>
       /\ Len(drawnOf(t)) = 2
       /\ drawnOf(t)[1].foto = <<DQ, DQ>>
       /\ drawnOf(t)[2].foto = <<"C">>


viewOf(k) ==
  [center |-> [lat |-> navigation[k].lat, lng |-> navigation[k].lng],
   zoom |-> navigation[k].zoom]

\* the active request as a (center, zoom) pair
request ==
  [center |-> [lat |-> mapView[1].center.lat, lng |-> mapView[1].center.lng],
   zoom |-> mapView[1].zoom]

RequestIsLastClicked ==
  IF lastClicked = 0 THEN mapView = Null
  ELSE mapView # Null /\ request = viewOf(lastClicked)

\* C6: the active request is absent before the first navigation click and
\* otherwise is the (center, zoom) pair of the control clicked last; no step
\* (click, photo, load) takes a request back to absent
C6_RequestIsLastClickedForever ==
  /\ []RequestIsLastClicked
  /\ [][mapView # Null => mapView' # Null]_vars

\* control 2 clicked after another click, with the data loaded and a photo open
C6_Witness ==
  /\ Published
  /\ selectedPhoto # Null
  /\ lastClicked = 2
  /\ mapView # Null
  /\ mapView[1].center.ref = 2
  /\ request = viewOf(2)
  /\ selectedMunicipio = <<"pajeu">>

\* C7 (as claimed): every navigation click is followed by a call of setView
C7_EveryClickCallsSetView ==
  [][mapView' # mapView => setViewCalled']_vars

\* the displayed map shows the active request or is moving to it
MapFollowsRequest ==
  (map # Null /\ mapView # Null) =>
    \/ map[1].target = <<request>>
    \/ /\ map[1].target = Null
       /\ map[1].center = request.center
       /\ map[1].zoom = request.zoom

\* C7 (amended): a navigation click calls setView exactly when the map is
\* mounted (the data is published with at least one marker); a map that is
\* mounted while a request is active either displays the request or is
\* moving to it, so a request made before the map was mounted is applied
\* when it mounts, and is never applied when the map never mounts
C7_ClickCallsSetViewIffMapMounted ==
  /\ [][mapView' # mapView => (setViewCalled' <=> map' # Null)]_vars
  /\ []MapFollowsRequest

\* control 2 clicked while the mounted map displays the view of control 1
C7_Witness ==
  /\ map # Null
  /\ lastClicked = 2
  /\ setViewCalled
  /\ map[1].center = viewOf(1).center
  /\ map[1].target = <<viewOf(2)>>

\* C10: setView is called in a step only if the step changes the active
\* request or mounts the controller; a step that opens or closes the photo
\* overlay with the controller mounted does not call it
C10_SetViewOnlyOnRequestChange ==
  /\ [][setViewCalled' => (mapView' # mapView \/ (ctrlDeps = Null /\ ctrlDeps' # Null))]_vars
  /\ [][(selectedPhoto' # selectedPhoto /\ ctrlDeps # Null) => ~setViewCalled']_vars

\* a photo open over a map that displays the active request, with no move
\* under way and no setView call in the last step
C10_Witness ==
  /\ selectedPhoto # Null
  /\ ctrlDeps # Null
  /\ map # Null
  /\ mapView # Null
  /\ map[1].target = Null
  /\ map[1].center = request.center
  /\ ~setViewCalled


\* the place of a source name in the Source Registry
SourceIndex(name) == CHOOSE i \in DOMAIN dataSources : dataSources[i].name = name

\* a is b with some elements left out (the order kept)
RECURSIVE IsSubseq(_, _)
IsSubseq(a, b) ==
  IF a = <<>> THEN TRUE
  ELSE IF b = <<>> THEN FALSE
  ELSE IF Head(a) = Head(b) THEN IsSubseq(Tail(a), Tail(b))
  ELSE IsSubseq(a, Tail(b))

\* C8: whatever the order in which the attempts completed, the published
\* mapping has one entry per source, in registry order; the marker sequence
\* lists the sources in registry order and, within a source, the rows in
\* the order of its file
C8_RegistryOrderAndRowOrder ==
  Published =>
    LET ms == getAllMarkers(allData)
    IN /\ Len(allData) = NumSources
       /\ \A i \in Sources : allData[i].source = dataSources[i].name
       /\ \A p, q \in 1..Len(ms) :
            p < q => SourceIndex(ms[p].source) <= SourceIndex(ms[q].source)
       /\ \A i \in Sources :
            /\ RowsOf(markersOf(i)) = RowsOf(allData[i].data)
            /\ IsSubseq(RowsOf(markersOf(i)), parsed[i])
            /\ Failed(i) => markersOf(i) = <<>>

\* source 2 completed before source 1, both with rows among the markers
C8_Witness ==
  /\ Published
  /\ settled[1] = 2
  /\ settled[2] = 1
  /\ parsed[1] = <<RowC, RowQuotedA>>
  /\ parsed[2] = <<RowQuotedA, RowEmptyX>>
  /\ Len(markersOf(1)) = 2
  /\ Len(markersOf(2)) = 1

AllResolved == \A s \in Sources : Resolved(s)

\* C9: the snapshot is published only when every attempt has resolved (an
\* attempt that never resolves leaves the loading placeholder for ever), it
\* is published once every attempt has resolved, and allData changes at the
\* one publication and never again
C9_PublishedIffAllResolvedAndOnce ==
  /\ [](Published => AllResolved)
  /\ [](~AllResolved => (allData = <<>> /\ ~mapBranch(allData)))
  /\ (AllResolved ~> Published)
  /\ [][Published => (Published' /\ allData' = allData)]_vars
  /\ [][allData' # allData => (~Published /\ Published')]_vars

\* one import still pending after every other source has loaded rows: the
\* placeholder is still shown
C9_Witness ==
  /\ ~Published
  /\ ~mapBranch(allData)
  /\ \E s \in Sources :
       /\ attempt[s] = "import"
       /\ \A t \in Sources \ {s} :
            Succeeded(t) /\ promise[t].value[1].data # <<>>


\* what the overlay is to show for row r of source s: the photo identifier
\* (quotes stripped, trimmed), the image found for it or else the path built
\* from the folder and the identifier, and the coordinates (Y is the
\* latitude, X the longitude)
PhotoOfRow(s, r) ==
  LET stripped == Trim(StripQuotes(r.Name))
      name == IF stripped # <<>> THEN stripped ELSE Trim(r.Name)
  IN [foto |-> name,
      path |-> [module |-> <<dataSources[s].name, name>> \in imageModules,
                folder |-> dataSources[s].name, photo |-> name],
      lat |-> parseFloat(r.Y).val,
      lng |-> parseFloat(r.X).val,
      source |-> dataSources[s].name]

OverlayShowsADrawnMarker ==
  photoDialogOverlay(selectedPhoto) =>
    /\ Published
    /\ \E s \in Sources :
         /\ Succeeded(s)
         /\ \E k \in 1..Len(parsed[s]) :
              /\ RowDrawable(parsed[s][k])
              /\ selectedPhoto[1] = PhotoOfRow(s, parsed[s][k])

\* C11: the overlay is open exactly when a photo is selected, and then shows
\* the identifier, the image and the coordinates of a drawn marker; the
\* selection changes only by a click on a marker (which sets it, whatever it
\* was) or by the close action or a click outside the dialog (which clears
\* it); a click inside the dialog and a navigation click leave it unchanged
C11_OverlayOpenIffPhotoSelected ==
  /\ []OverlayShowsADrawnMarker
  /\ [][selectedPhoto' # selectedPhoto =>
          \/ overlayClick' = "close" /\ ~photoDialogOverlay(selectedPhoto')
          \/ /\ overlayClick' = "none"
             /\ photoDialogOverlay(selectedPhoto')
             /\ mapView' = mapView
             /\ loaderVars' = loaderVars]_vars
  /\ [][overlayClick' = "close" =>
          (photoDialogOverlay(selectedPhoto) /\ ~photoDialogOverlay(selectedPhoto'))]_vars
  /\ [][overlayClick' = "dialog" =>
          (photoDialogOverlay(selectedPhoto) /\ selectedPhoto' = selectedPhoto)]_vars
  /\ [][mapView' # mapView => selectedPhoto' = selectedPhoto]_vars

\* after a navigation click and a click inside the dialog, the overlay still
\* shows photo A of the second source at its coordinates, with the path
\* built for it (its folder holds no image)
C11_Witness ==
  /\ photoDialogOverlay(selectedPhoto)
  /\ overlayClick = "dialog"
  /\ lastClicked # 0
  /\ selectedPhoto[1].foto = <<"A">>
  /\ selectedPhoto[1].source = dataSources[2].name
  /\ selectedPhoto[1].lat = -15750000
  /\ selectedPhoto[1].lng = -41460000
  /\ ~selectedPhoto[1].path.module

====
